---- MODULE Spec2Model ----
(***************************************************************************)
(* Model of the Cacophony API client of audiobait (src/api/api.go): the    *)
(* session built by NewAPI, the schedule and file downloads, the event     *)
(* report and the permanent/temporary classification of errors.            *)
(*                                                                         *)
(* The HTTP server, the network and the file system are the environment:   *)
(* every call of the client draws what they answer from a small set.       *)
(***************************************************************************)
EXTENDS Integers, Sequences, FiniteSets, TLC

VARIABLES
    api,        \* the *CacophonyAPI the caller holds (NoSession before NewAPI returned one)
    allocated,  \* the CacophonyAPI struct the last NewAPI call built (kept even if it returned nil)
    disk,       \* contents of fileFolder/<fileID>, per file ID
    requests,   \* the HTTP requests the current (or last) call has issued, in order
    pc,         \* "idle", or "fetching" inside the loop of GetFilesFromSchedule
    call,       \* the running GetFilesFromSchedule: its ID list, position and what it has written
    result      \* what the last call returned, with its inputs and what the environment answered

vars == <<api, allocated, disk, requests, pc, call, result>>

(***************************************************************************)
(* Bounds of the model.                                                    *)
(***************************************************************************)
\* longest AllSounds list of a schedule
MaxIds == 3
\* longest list of event times given to ReportEvent
MaxTimes == 2

FileIDs == {5, 7}

\* all sequences over S of length at most n
RECURSIVE SeqsUpTo(_, _)
SeqsUpTo(S, n) ==
    IF n = 0 THEN {<<>>}
    ELSE LET shorter == SeqsUpTo(S, n - 1)
         IN  shorter \cup {Append(s, x) : s \in {t \in shorter : Len(t) = n - 1}, x \in S}

Range(s) == {s[i] : i \in 1..Len(s)}

(***************************************************************************)
(* Errors.  A Go error value is a record tagged with its dynamic type;     *)
(* only *Error carries a permanent flag.                                   *)
(***************************************************************************)
NoError == [type |-> "nil"]

\* errors.New / fmt.Errorf
errorString(msg) == [type |-> "*errors.errorString", message |-> msg]

\* what net/http returns when the request could not be carried out
urlError(msg) == [type |-> "*url.Error", message |-> msg]

\* what encoding/json returns
jsonError(kind, msg) == [type |-> kind, message |-> msg]

\* what os.Create / os.MkdirAll return
pathError(msg) == [type |-> "*os.PathError", message |-> msg]

temporaryErrorAsPermanent(err) ==
    [type |-> "*Error", message |-> err.message, permanent |-> TRUE]

temporaryError(err) ==
    [type |-> "*Error", message |-> err.message, permanent |-> FALSE]

IsPermanentErrorDefaultTemporary(err) ==
    IF err.type = "nil" THEN FALSE
    ELSE IF err.type = "*Error" THEN err.permanent
    ELSE FALSE

IsPermanentError(err) ==
    IF err.type = "nil" THEN FALSE
    ELSE IF err.type = "*Error" THEN err.permanent
    ELSE TRUE

isHTTPSuccess(code) == code >= 200 /\ code < 300

isHTTPClientErrorNoUpperBound(code) == code >= 400

isHTTPClientError(code) == code >= 400 /\ code < 500

(***************************************************************************)
(* The session.                                                            *)
(***************************************************************************)
NoSession == [kind |-> "nil"]

\* the struct literal of NewAPI: token and justRegistered take their zero values
CacophonyAPI(password) ==
    [kind |-> "CacophonyAPI", serverURL |-> "https://server", group |-> "group",
     deviceName |-> "device", password |-> password, token |-> "",
     justRegistered |-> FALSE]

JustRegistered(a) == a.justRegistered

\* an HTTP request as the server sees it
Request(method, path, hasAuth, auth) ==
    [method |-> method, path |-> path, hasAuth |-> hasAuth, auth |-> auth]

messageLast(r) ==
    IF Len(r.Messages) > 0 THEN r.Messages[Len(r.Messages)] ELSE "unknown"

message(r) ==
    IF Len(r.Messages) > 0 THEN r.Messages[1] ELSE "unknown"

\* what the server (or the network) answers to POST /authenticate_device
TokenResponses ==
    [Success : BOOLEAN,
     Messages : {<<>>, <<"bad creds">>, <<"bad creds", "device locked">>},
     Token : {"", "tok"}]

AuthReplies ==
    {[kind |-> "transport"], [kind |-> "malformed"]}
        \cup {[kind |-> "json", resp |-> r] : r \in TokenResponses}

\* newToken: the session after the call, the error returned, the requests issued
newToken(a, reply) ==
    IF a.password = ""
    THEN [api |-> a, err |-> errorString("no password set"), reqs |-> <<>>]
    ELSE LET post == Request("POST", "/authenticate_device", FALSE, "")
         IN  CASE reply.kind = "transport" ->
                    [api |-> a, err |-> urlError("Post: connection refused"),
                     reqs |-> <<post>>]
               [] reply.kind = "malformed" ->
                    [api |-> a,
                     err |-> errorString("decode: " \o "invalid character '<'"),
                     reqs |-> <<post>>]
               [] OTHER ->
                    IF ~reply.resp.Success
                    THEN [api |-> a,
                          err |-> errorString("registration failed: "
                                                  \o message(reply.resp)),
                          reqs |-> <<post>>]
                    ELSE [api |-> [a EXCEPT !.token = reply.resp.Token],
                          err |-> NoError, reqs |-> <<post>>]

Idle == [ids |-> <<>>, idx |-> 0,
         written |-> [f \in FileIDs |-> "(none)"],
         writes |-> [f \in FileIDs |-> 0]]

Absent == "(absent)"

Init ==
    /\ api = NoSession
    /\ allocated = NoSession
    /\ disk = [f \in FileIDs |-> Absent]
    /\ requests = <<>>
    /\ pc = "idle"
    /\ call = Idle
    /\ result = [op |-> "none", err |-> NoError, permanent |-> FALSE,
                 panicked |-> FALSE]

NewAPI ==
    /\ pc = "idle"
    /\ \E password \in {"", "pw"}, reply \in AuthReplies :
          LET r == newToken(CacophonyAPI(password), reply)
              returned == IF r.err.type # "nil" THEN NoSession ELSE r.api
          IN  /\ allocated' = r.api
              /\ api' = IF returned = NoSession THEN api ELSE returned
              /\ requests' = r.reqs
              /\ result' = [op |-> "NewAPI", err |-> r.err,
                            permanent |-> IsPermanentError(r.err),
                            panicked |-> FALSE, password |-> password,
                            reply |-> reply, returned |-> returned]
    /\ UNCHANGED <<disk, pc, call>>

(***************************************************************************)
(* The schedule.                                                           *)
(***************************************************************************)
Schedule(combos, allSounds, playNights, description) ==
    [Combos |-> combos, AllSounds |-> allSounds, PlayNights |-> playNights,
     Description |-> description]

\* Schedule{}
EmptySchedule == Schedule(<<>>, <<>>, 0, "")

IdLists == SeqsUpTo(FileIDs, MaxIds)

\* what the server (or the network) answers to GET /api/v1/schedules
ScheduleReplies ==
    {[kind |-> "transport"], [kind |-> "malformed"]}
        \cup {[kind |-> "json", schedule |-> Schedule(<<>>, ids, 3, "x")] :
                  ids \in IdLists}

GetSchedule ==
    /\ pc = "idle"
    /\ api # NoSession
    /\ \E reply \in ScheduleReplies :
          LET err == CASE reply.kind = "transport" ->
                            urlError("Get: connection refused")
                       [] reply.kind = "malformed" ->
                            jsonError("*json.SyntaxError", "invalid character '<'")
                       [] OTHER -> NoError
              schedule == IF err.type = "nil" THEN reply.schedule ELSE EmptySchedule
          IN  /\ requests' = <<Request("GET", "/api/v1/schedules", TRUE, api.token)>>
              /\ result' = [op |-> "GetSchedule", err |-> err,
                            permanent |-> IsPermanentError(err),
                            panicked |-> FALSE, reply |-> reply,
                            schedule |-> schedule]
    /\ UNCHANGED <<api, allocated, disk, pc, call>>

(***************************************************************************)
(* Files.  A file on disk is Absent, Truncated (created, nothing written), *)
(* Partial (the copy broke off) or holds a body the server sent.           *)
(***************************************************************************)
Truncated == ""
Partial == "(partial)"
Bodies == {"A", "B"}

\* what the server, the network and the file system do during one GetFile
FileReplies ==
    {[kind |-> "metaTransport"], [kind |-> "metaMalformed"],
     [kind |-> "createFails"], [kind |-> "getTransport"],
     [kind |-> "badStatus", status |-> 404], [kind |-> "copyFails"]}
        \cup {[kind |-> "ok", status |-> 200, body |-> b] : b \in Bodies}

\* getFileFromJWT: os.Create truncates the file at path before the download
getFileFromJWT(a, jwt, fileID, reply, d) ==
    LET get == Request("GET", "/api/v1/signedUrl?jwt=" \o jwt, FALSE, "")
        created == [d EXCEPT ![fileID] = Truncated]
    IN  CASE reply.kind = "createFails" ->
               [err |-> pathError("open: permission denied"), disk |-> d,
                reqs |-> <<>>]
          [] reply.kind = "getTransport" ->
               [err |-> urlError("Get: connection refused"), disk |-> created,
                reqs |-> <<get>>]
          [] reply.kind = "badStatus" ->
               [err |-> errorString("bad status: " \o ToString(reply.status)),
                disk |-> created, reqs |-> <<get>>]
          [] reply.kind = "copyFails" ->
               [err |-> errorString("unexpected EOF"),
                disk |-> [d EXCEPT ![fileID] = Partial], reqs |-> <<get>>]
          [] OTHER ->
               [err |-> NoError, disk |-> [d EXCEPT ![fileID] = reply.body],
                reqs |-> <<get>>]

\* GetFile: the error returned, the disk afterwards, the requests issued
GetFile(a, fileID, reply, d) ==
    LET meta == Request("GET", "/api/v1/files/" \o ToString(fileID), TRUE, a.token)
    IN  CASE reply.kind = "metaTransport" ->
               [err |-> urlError("Get: connection refused"), disk |-> d,
                reqs |-> <<meta>>]
          [] reply.kind = "metaMalformed" ->
               [err |-> jsonError("*json.SyntaxError", "invalid character '<'"),
                disk |-> d, reqs |-> <<meta>>]
          [] OTHER ->
               LET r == getFileFromJWT(a, "jwt" \o ToString(fileID), fileID, reply, d)
               IN  [err |-> r.err, disk |-> r.disk, reqs |-> <<meta>> \o r.reqs]

GetFileCall ==
    /\ pc = "idle"
    /\ api # NoSession
    /\ \E fileID \in FileIDs, reply \in FileReplies :
          LET r == GetFile(api, fileID, reply, disk)
          IN  /\ disk' = r.disk
              /\ requests' = r.reqs
              /\ result' = [op |-> "GetFile", err |-> r.err,
                            permanent |-> IsPermanentError(r.err),
                            panicked |-> FALSE, fileID |-> fileID, reply |-> reply]
    /\ UNCHANGED <<api, allocated, pc, call>>

RECURSIVE Deduplicated(_)
Deduplicated(ids) ==
    IF ids = <<>> THEN <<>>
    ELSE LET front == Deduplicated(SubSeq(ids, 1, Len(ids) - 1))
             last == ids[Len(ids)]
         IN  IF last \in Range(front) THEN front ELSE Append(front, last)

SoundsToFetchDeduplicated(schedule) == Deduplicated(schedule.AllSounds)

\* the IDs the loop of GetFilesFromSchedule ranges over
SoundsToFetch(schedule) == schedule.AllSounds

\* what GetFilesFromSchedule returns, with what the call did
FilesResult(err, c, last) ==
    [op |-> "GetFilesFromSchedule", err |-> err,
     permanent |-> IsPermanentError(err), panicked |-> FALSE,
     ids |-> c.ids, attempted |-> c.idx, written |-> c.written,
     writes |-> c.writes, reply |-> last]

\* GetFilesFromSchedule up to its loop: MkdirAll, then the first ID if there is one
GetFilesFromSchedule ==
    /\ pc = "idle"
    /\ api # NoSession
    /\ \E allSounds \in IdLists, mkdirOK \in BOOLEAN :
          LET ids == SoundsToFetch(Schedule(<<>>, allSounds, 3, "x"))
              c == [Idle EXCEPT !.ids = allSounds]
          IN  /\ requests' = <<>>
              /\ IF ~mkdirOK
                 THEN /\ result' = FilesResult(pathError("mkdir: permission denied"),
                                               c, [kind |-> "mkdirFails"])
                      /\ UNCHANGED <<pc, call>>
                 ELSE IF ids = <<>>
                 THEN /\ result' = FilesResult(NoError, c, [kind |-> "none"])
                      /\ UNCHANGED <<pc, call>>
                 ELSE /\ pc' = "fetching"
                      /\ call' = [c EXCEPT !.idx = 1]
                      /\ result' = [op |-> "running", err |-> NoError,
                                    permanent |-> FALSE, panicked |-> FALSE,
                                    todo |-> ids]
    /\ UNCHANGED <<api, allocated, disk>>

\* one iteration of the loop of GetFilesFromSchedule: GetFile, return on error
FetchNext ==
    /\ pc = "fetching"
    /\ \E reply \in FileReplies :
          LET todo == result.todo
              fileID == todo[call.idx]
              r == GetFile(api, fileID, reply, disk)
              c == IF r.err.type = "nil"
                   THEN [call EXCEPT !.written[fileID] = reply.body,
                                     !.writes[fileID] = @ + 1]
                   ELSE call
          IN  /\ disk' = r.disk
              /\ requests' = requests \o r.reqs
              /\ IF r.err.type # "nil"
                 THEN /\ result' = FilesResult(r.err, c, reply)
                      /\ pc' = "idle"
                      /\ call' = Idle
                 ELSE IF call.idx = Len(todo)
                 THEN /\ result' = FilesResult(NoError, c, reply)
                      /\ pc' = "idle"
                      /\ call' = Idle
                 ELSE /\ call' = [c EXCEPT !.idx = @ + 1]
                      /\ UNCHANGED <<pc, result>>
    /\ UNCHANGED <<api, allocated>>

(***************************************************************************)
(* Event reports.  A JSON value is a number, a string or a list of         *)
(* strings; a JSON object is a function from its keys to values.           *)
(* A number literal is the integer hi * 2^27 + lo, which reaches past 2^53 *)
(* without leaving TLC's integers.                                         *)
(***************************************************************************)
Num(hi, lo) == [t |-> "num", hi |-> hi, lo |-> lo]
Str(s) == [t |-> "str", s |-> s]
List(items) == [t |-> "list", items |-> items]

\* the float64 nearest to an integer below 2^54 (round half to even), as
\* encoding/json picks it when it decodes a number into interface{}
ToFloat64(n) ==
    IF n.hi < 2^26 \/ n.lo % 2 = 0 THEN n
    ELSE IF ((n.lo - 1) \div 2) % 2 = 0 THEN Num(n.hi, n.lo - 1)
    ELSE IF n.lo + 1 = 2^27 THEN Num(n.hi + 1, 0)
    ELSE Num(n.hi, n.lo + 1)

\* json.Unmarshal of one value into interface{}
DecodeValue(v) == IF v.t = "num" THEN ToFloat64(v) ELSE v

\* the details a caller may pass: JSON objects, and bytes that are none
DetailObjects ==
    {<<>>,
     "a" :> Num(0, 1),
     "a" :> Num(2^26, 1),
     ("a" :> Num(0, 1)) @@ ("dateTimes" :> Str("x"))}

Details ==
    {[kind |-> "malformed"], [kind |-> "array"], [kind |-> "null"]}
        \cup {[kind |-> "object", members |-> m] : m \in DetailObjects}

\* json.Unmarshal(jsonDetails, &details): null leaves the map nil, without error
Unmarshal(jsonDetails) ==
    CASE jsonDetails.kind = "malformed" ->
           [err |-> jsonError("*json.SyntaxError", "invalid character"),
            isNil |-> TRUE, details |-> <<>>]
      [] jsonDetails.kind = "array" ->
           [err |-> jsonError("*json.UnmarshalTypeError",
                              "cannot unmarshal array into Go value"),
            isNil |-> TRUE, details |-> <<>>]
      [] jsonDetails.kind = "null" ->
           [err |-> NoError, isNil |-> TRUE, details |-> <<>>]
      [] OTHER ->
           [err |-> NoError, isNil |-> FALSE,
            details |-> [k \in DOMAIN jsonDetails.members |->
                            DecodeValue(jsonDetails.members[k])]]

\* a time.Time: an instant (whole hours since 2022-12-31T00:00:00Z, and the
\* nanoseconds past the second) shown in a zone (hours east of UTC)
Time(unix, offset, nsec) == [unix |-> unix, offset |-> offset, nsec |-> nsec]

Times == {Time(24, 0, 0), Time(23, 1, 500000000)}

TimeLists == SeqsUpTo(Times, MaxTimes)

TwoDigits(n) == IF n < 10 THEN "0" \o ToString(n) ELSE ToString(n)

DateText(day) ==
    CASE day = 0 -> "2022-12-31"
      [] day = 1 -> "2023-01-01"
      [] OTHER -> "2023-01-02"

\* t.UTC(): the same instant, shown in UTC
UTC(t) == [t EXCEPT !.offset = 0]

\* t.Format(time.RFC3339): the wall clock of t's zone, no fraction of a second
FormatRFC3339(t) ==
    LET wall == t.unix + t.offset
        zone == IF t.offset = 0 THEN "Z"
                ELSE IF t.offset > 0 THEN "+" \o TwoDigits(t.offset) \o ":00"
                ELSE "-" \o TwoDigits(0 - t.offset) \o ":00"
    IN  DateText(wall \div 24) \o "T" \o TwoDigits(wall % 24) \o ":00:00" \o zone

formatTimestampLocal(t) == FormatRFC3339(t)

formatTimestamp(t) == FormatRFC3339(UTC(t))

StatusCodes == {200, 299, 300, 400, 499, 500}

\* what the server (or the network) answers to POST /api/v1/events
EventReplies ==
    {[kind |-> "transport"]}
        \cup {[kind |-> "response", status |-> c, readable |-> TRUE, body |-> "oops"] :
                  c \in StatusCodes}
        \cup {[kind |-> "response", status |-> c, readable |-> FALSE, body |-> "oops"] :
                  c \in {s \in StatusCodes : ~isHTTPSuccess(s)}}

\* the error ReportEvent returns for what came back
ReportResponse(reply) ==
    IF reply.kind = "transport"
    THEN temporaryError(urlError("Post: connection refused"))
    ELSE IF isHTTPSuccess(reply.status) THEN NoError
    ELSE IF ~reply.readable
    THEN temporaryError(errorString("request failed (" \o ToString(reply.status)
                                        \o ") and body read failed: unexpected EOF"))
    ELSE [type |-> "*Error",
          message |-> "HTTP request failed (" \o ToString(reply.status) \o "): "
                          \o reply.body,
          permanent |-> isHTTPClientError(reply.status)]

\* details["dateTimes"] = dateTimes, then json.Marshal: the object sent
EventBody(details, times) ==
    LET dateTimes == [i \in 1..Len(times) |-> formatTimestamp(times[i])]
    IN  [k \in DOMAIN details \cup {"dateTimes"} |->
            IF k = "dateTimes" THEN List(dateTimes) ELSE details[k]]

\* ReportEvent, called with details and times out of the given sets
ReportEventOf(detailSet, timeLists) ==
    /\ pc = "idle"
    /\ api # NoSession
    /\ \E jsonDetails \in detailSet, times \in timeLists, reply \in EventReplies :
          LET u == Unmarshal(jsonDetails)
              in == [op |-> "ReportEvent", jsonDetails |-> jsonDetails,
                     times |-> times]
              unused == [kind |-> "unused"]
          IN  IF u.err.type # "nil"
              THEN /\ requests' = <<>>
                   /\ result' = in @@ [err |-> u.err,
                                       permanent |-> IsPermanentError(u.err),
                                       panicked |-> FALSE, reply |-> unused]
              ELSE IF u.isNil
              THEN \* assignment to an entry of a nil map: the call panics
                   /\ requests' = <<>>
                   /\ result' = in @@ [err |-> NoError, permanent |-> FALSE,
                                       panicked |-> TRUE, reply |-> unused]
              ELSE LET err == ReportResponse(reply)
                   IN  /\ requests' =
                            <<[method |-> "POST", path |-> "/api/v1/events",
                               hasAuth |-> TRUE, auth |-> api.token,
                               body |-> EventBody(u.details, times)]>>
                       /\ result' = in @@ [err |-> err,
                                           permanent |-> IsPermanentError(err),
                                           panicked |-> FALSE, reply |-> reply]
    /\ UNCHANGED <<api, allocated, disk, pc, call>>

ReportEvent == ReportEventOf(Details, TimeLists)

\* ReportEvent, called with the event {"a":1} at 2023-01-01T00:00:00Z
ReportSampleEvent ==
    ReportEventOf({[kind |-> "object", members |-> "a" :> Num(0, 1)]},
                  {<<Time(24, 0, 0)>>})

(***************************************************************************)
(* A caller asks IsPermanentError about an error of any shape.             *)
(***************************************************************************)
SampleErrors ==
    {NoError, errorString("boom"), urlError("timeout"),
     [type |-> "*Error", message |-> "boom", permanent |-> TRUE],
     [type |-> "*Error", message |-> "boom", permanent |-> FALSE]}

Classify ==
    /\ pc = "idle"
    /\ \E e \in SampleErrors :
          result' = [op |-> "IsPermanentError", err |-> e,
                     permanent |-> IsPermanentError(e), panicked |-> FALSE]
    /\ requests' = <<>>
    /\ UNCHANGED <<api, allocated, disk, pc, call>>

NextFetch ==
    \/ NewAPI
    \/ GetSchedule
    \/ GetFileCall
    \/ GetFilesFromSchedule
    \/ FetchNext
    \/ Classify

\* a device that authenticates and downloads its schedule and files
SpecFetch == Init /\ [][NextFetch]_vars

NextReport ==
    \/ NewAPI
    \/ ReportEvent
    \/ Classify

\* a device that authenticates and reports events
SpecReport == Init /\ [][NextReport]_vars

Next ==
    \/ NewAPI
    \/ GetSchedule
    \/ GetFileCall
    \/ GetFilesFromSchedule
    \/ FetchNext
    \/ ReportSampleEvent
    \/ Classify

\* the whole client; the event reported is the sample event
Spec == Init /\ [][Next]_vars

(***************************************************************************)
(* The claims.                                                             *)
(***************************************************************************)
\* a response to the events POST came back with this call
GotResponse == result.op = "ReportEvent" /\ result.reply.kind = "response"

InClientRange(code) == code >= 400 /\ code < 500
InSuccessRange(code) == code >= 200 /\ code < 300

\* C1 as stated: whenever ReportEvent gets a response, a 2xx status returns
\* no error, a status in [400,500) returns a permanent error and every other
\* status returns a temporary error.
C1_StatusAloneDecides ==
    GotResponse =>
        IF InSuccessRange(result.reply.status)
        THEN result.err = NoError
        ELSE /\ result.err # NoError
             /\ result.permanent = InClientRange(result.reply.status)

\* C1 amended: the status decides as stated when the body of the response can
\* be read; when reading the body of a non-2xx response fails, the error is
\* temporary whatever the status.
C1_StatusDecidesWhenBodyRead ==
    GotResponse =>
        IF InSuccessRange(result.reply.status)
        THEN result.err = NoError
        ELSE /\ result.err # NoError
             /\ result.err.type = "*Error"
             /\ result.permanent =
                    (result.reply.readable /\ InClientRange(result.reply.status))

C1_Witness ==
    /\ GotResponse
    /\ result.reply.status = 499
    /\ result.reply.readable
    /\ result.permanent

\* C2: NewAPI with an empty password, and ReportEvent with details that are
\* not a JSON object, return a permanent error without any HTTP request; the
\* failed NewAPI returns no session and stores no token.
C2_PreconditionErrorsArePermanent ==
    /\ (result.op = "NewAPI" /\ result.password = "") =>
          /\ result.err # NoError
          /\ result.permanent
          /\ requests = <<>>
          /\ result.returned = NoSession
          /\ allocated.token = ""
    /\ (result.op = "ReportEvent" /\ result.jsonDetails.kind # "object") =>
          /\ ~result.panicked
          /\ result.err # NoError
          /\ result.permanent
          /\ requests = <<>>

\* the paths of the metadata requests a call has issued, in order
RECURSIVE MetadataPaths(_)
MetadataPaths(reqs) ==
    IF reqs = <<>> THEN <<>>
    ELSE IF Head(reqs).hasAuth
         THEN <<Head(reqs).path>> \o MetadataPaths(Tail(reqs))
         ELSE MetadataPaths(Tail(reqs))

PathsOf(ids) == [i \in 1..Len(ids) |-> "/api/v1/files/" \o ToString(ids[i])]

FilesReturned == result.op = "GetFilesFromSchedule"

\* C3: when a fetch of GetFilesFromSchedule fails, no later ID is attempted
\* and every file an earlier fetch of the same call wrote still holds what
\* that fetch wrote.
C3_FailFastKeepsEarlierFiles ==
    (FilesReturned /\ result.err # NoError /\ result.reply.kind # "mkdirFails") =>
        /\ MetadataPaths(requests) = PathsOf(SubSeq(result.ids, 1, result.attempted))
        /\ \A f \in FileIDs :
              result.written[f] # "(none)" => disk[f] = result.written[f]

Occurrences(ids, f) == Cardinality({i \in 1..Len(ids) : ids[i] = f})

\* C4: when GetFilesFromSchedule returns no error it has made one fetch per
\* element of the ID list, in list order, duplicates included: each ID was
\* written as often as it occurs, the files written are those of the list and
\* each holds what its last fetch brought.
C4_OneFetchPerListElement ==
    (FilesReturned /\ result.err = NoError) =>
        /\ result.attempted = Len(result.ids)
        /\ MetadataPaths(requests) = PathsOf(result.ids)
        /\ Len(requests) = 2 * Len(result.ids)
        /\ \A f \in FileIDs :
              /\ result.writes[f] = Occurrences(result.ids, f)
              /\ (result.written[f] # "(none)") = (f \in Range(result.ids))
              /\ f \in Range(result.ids) =>
                    /\ disk[f] \in Bodies
                    /\ disk[f] = result.written[f]

C4_Witness ==
    /\ FilesReturned
    /\ result.err = NoError
    /\ result.ids = <<5, 7, 5>>
    /\ Len(MetadataPaths(requests)) = 3
    /\ result.writes[5] = 2
    /\ result.writes[7] = 1
    /\ disk[5] \in Bodies
    /\ disk[7] \in Bodies

\* C5: the session a successful NewAPI returns reports JustRegistered() true.
C5_JustRegisteredAfterNewAPI ==
    (result.op = "NewAPI" /\ result.err = NoError) =>
        JustRegistered(result.returned)

\* the network failed under the request of the last call
TransportFailed ==
    \/ /\ result.op = "NewAPI"
       /\ result.password # ""
       /\ result.reply.kind = "transport"
    \/ /\ result.op \in {"GetSchedule", "ReportEvent"}
       /\ result.reply.kind = "transport"
    \/ /\ result.op \in {"GetFile", "GetFilesFromSchedule"}
       /\ result.reply.kind \in {"metaTransport", "getTransport"}

\* C6 as stated: a transport failure yields a permanent error in NewAPI and a
\* temporary error in every other call.
C6_TransportTemporaryExceptAuth ==
    TransportFailed =>
        /\ result.err # NoError
        /\ result.permanent = (result.op = "NewAPI")

\* C6 amended: a transport failure yields a temporary error in ReportEvent
\* only; in NewAPI, GetSchedule, GetFile and GetFilesFromSchedule the error
\* is returned as it came and is classified permanent.
C6_TransportTemporaryOnlyInReportEvent ==
    TransportFailed =>
        /\ result.err # NoError
        /\ result.permanent = (result.op # "ReportEvent")
        /\ (result.err.type = "*Error") = (result.op = "ReportEvent")

C6_Witness ==
    /\ TransportFailed
    /\ result.op = "ReportEvent"
    /\ result.err.type = "*Error"
    /\ ~result.permanent

\* C7: no token is stored unless authentication succeeded, and every request
\* that carries an Authorization header carries a non-empty token.
C7_AuthenticatedRequestsCarryToken ==
    /\ (result.op = "NewAPI" /\ result.err # NoError) => allocated.token = ""
    /\ \A i \in 1..Len(requests) :
          requests[i].hasAuth => requests[i].auth # ""

\* the server answered the authentication with success = false
Refused ==
    /\ result.op = "NewAPI"
    /\ result.password # ""
    /\ result.reply.kind = "json"
    /\ ~result.reply.resp.Success

FirstMessage ==
    IF result.reply.resp.Messages = <<>> THEN "unknown"
    ELSE Head(result.reply.resp.Messages)

\* C8 as stated: when the server answers success = false, the error message
\* is exactly the first of the server's messages, or "unknown" when there is
\* none; the error is permanent and no token is stored.
C8_MessageIsFirstServerMessage ==
    Refused =>
        /\ result.err.message = FirstMessage
        /\ result.permanent
        /\ result.returned = NoSession
        /\ allocated.token = ""

\* C8 amended: the error message is "registration failed: " followed by the
\* first of the server's messages, or by "unknown" when there is none; the
\* error is permanent and no token is stored.
C8_MessageIsPrefixedFirstMessage ==
    Refused =>
        /\ result.err.message = "registration failed: " \o FirstMessage
        /\ result.permanent
        /\ result.returned = NoSession
        /\ allocated.token = ""

C8_Witness ==
    /\ Refused
    /\ result.reply.resp.Messages = <<"bad creds", "device locked">>
    /\ result.err.message = "registration failed: bad creds"

\* C9: IsPermanentError answers with the flag of an *Error and with true for
\* every other error that is not nil, so every error of GetSchedule, GetFile
\* and GetFilesFromSchedule, none of which is an *Error, counts as permanent.
C9_DefaultToPermanent ==
    /\ result.err.type = "*Error" => result.permanent = result.err.permanent
    /\ result.err.type \notin {"nil", "*Error"} => result.permanent
    /\ (result.op \in {"GetSchedule", "GetFile", "GetFilesFromSchedule"}
            /\ result.err # NoError) =>
          /\ result.err.type # "*Error"
          /\ result.permanent

C9_Witness ==
    /\ result.op = "GetSchedule"
    /\ result.err.type = "*url.Error"
    /\ result.permanent

\* the RFC 3339 text of an instant in UTC
RFC3339UTC(t) ==
    DateText(t.unix \div 24) \o "T" \o TwoDigits(t.unix % 24) \o ":00:00Z"

\* the body the claim describes for details D and times T
MergedBody(D, T) ==
    [k \in DOMAIN D \cup {"dateTimes"} |->
        IF k = "dateTimes" THEN List([i \in 1..Len(T) |-> RFC3339UTC(T[i])])
        ELSE D[k]]

EventSent ==
    /\ result.op = "ReportEvent"
    /\ result.jsonDetails.kind = "object"
    /\ requests # <<>>

\* integers a float64 holds exactly: below 2^53, or even below 2^54
HeldExactly(v) == v.t = "num" => (v.hi < 2^26 \/ v.lo % 2 = 0)

\* C10 as stated: the body sent equals the details on every key but
\* "dateTimes", which holds the times as UTC RFC 3339 texts in order.
C10_BodyIsDetailsPlusDateTimes ==
    EventSent =>
        requests[1].body = MergedBody(result.jsonDetails.members, result.times)

\* C10 amended: the same, for details whose numbers a float64 holds exactly
\* (the details are decoded to float64 and encoded again).
C10_BodyIsDetailsPlusDateTimesIfExact ==
    (EventSent /\ \A k \in DOMAIN result.jsonDetails.members :
                      HeldExactly(result.jsonDetails.members[k])) =>
        requests[1].body = MergedBody(result.jsonDetails.members, result.times)

C10_Witness ==
    /\ EventSent
    /\ result.jsonDetails.members = ("a" :> Num(0, 1)) @@ ("dateTimes" :> Str("x"))
    /\ result.times = <<Time(23, 1, 500000000), Time(24, 0, 0)>>
    /\ requests[1].body =
          ("a" :> Num(0, 1))
              @@ ("dateTimes" :> List(<<"2022-12-31T23:00:00Z", "2023-01-01T00:00:00Z">>))
====
